---- MODULE Spec2Model ----
(***************************************************************************)
(* Model of pyqtgraph/graphicsItems/ErrorBarItem.py: the option set, the   *)
(* lazily built and cached path, and the operations setData, setLogMode,   *)
(* paint and boundingRect, with drawPath and getDrawValue as operators.    *)
(*                                                                         *)
(* Numbers are floats of the program.  A finite float is held in           *)
(* thousandths (1000 is 1.0), so that height/2. and beam/2. are exact;     *)
(* NaN and the two infinities are separate values, as in IEEE arithmetic.  *)
(* log10 is tabulated for the arguments the inputs produce, rounded to a    *)
(* thousandth.  A Python exception ends the call that raised it: the state *)
(* keeps what was assigned before the raise and err names the exception.   *)
(* A path is the sequence of moveTo/lineTo pairs drawPath issues; each     *)
(* segment carries the name of the loop that emitted it.                   *)
(***************************************************************************)
EXTENDS Integers, Sequences, FiniteSets, TLC

VARIABLES opts, path, err, notes

vars == <<opts, path, err, notes>>

\* Number of data points in the x and y arrays.
NumPoints == 2

----------------------------------------------------------------------------
\* Python values held in the option dictionary.

None == [t |-> "None"]

Num(n) == [t |-> "float", n |-> n]

Arr(a) == [t |-> "ndarray", a |-> a]

PyList(xm, ym) == [t |-> "list", xy |-> <<xm, ym>>]

PyTuple(xm, ym) == [t |-> "tuple", xy |-> <<xm, ym>>]

PyStr(s) == [t |-> "str", s |-> s]

----------------------------------------------------------------------------
\* Floats.

Fin(v) == [c |-> "fin", v |-> v]

NaN == [c |-> "nan", v |-> 0]

NegInf == [c |-> "-inf", v |-> 0]

PosInf == [c |-> "+inf", v |-> 0]

IsNaN(f) == f.c = "nan"

\* f + d for a finite d (thousandths); NaN and the infinities absorb it.
FAdd(f, d) == IF f.c = "fin" THEN Fin(f.v + d) ELSE f

\* log10 of the whole numbers 1..12, in thousandths, rounded to nearest.
Log10Table == <<0, 301, 477, 602, 699, 778, 845, 903, 954, 1000, 1041, 1079>>

\* numpy.log10 under errstate(invalid='ignore', divide='ignore'):
\* negative -> nan, zero -> -inf, nothing is raised.
Log10(f) ==
    CASE f.c = "nan" -> NaN
      [] f.c = "-inf" -> NaN
      [] f.c = "+inf" -> PosInf
      [] f.c = "fin" /\ f.v < 0 -> NaN
      [] f.c = "fin" /\ f.v = 0 -> NegInf
      [] f.c = "fin" /\ f.v > 0 -> Fin(Log10Table[f.v \div 1000])

----------------------------------------------------------------------------
\* The inputs a caller supplies.

Fields == {"x", "y", "height", "width", "top", "bottom", "left", "right",
           "beam", "pen", "logMode"}

XData == [i \in 1..NumPoints |-> 1000 * i]

YData == [i \in 1..NumPoints |-> 2000 * i]

\* A per-point magnitude: top given as an array.
TopData == [i \in 1..NumPoints |-> 1000 * i]

LogLists == {PyList(xm, ym) : xm \in BOOLEAN, ym \in BOOLEAN}

LogTuples == {PyTuple(TRUE, TRUE)}

FieldVals(f) ==
    CASE f = "x" -> {None, Arr(XData)}
      [] f = "y" -> {None, Arr(YData)}
      [] f = "height" -> {None, Num(4000)}
      [] f = "top" -> {None, Arr(TopData)}
      [] f = "bottom" -> {None, Num(3000)}
      [] f = "width" -> {None, Num(2000)}
      [] f = "left" -> {None, Num(2000)}
      [] f = "right" -> {None, Num(1000)}
      [] f = "beam" -> {None, Num(0), Num(500)}
      [] f = "pen" -> {None, PyStr("r")}
      [] f = "logMode" -> LogLists \cup LogTuples

AllVals == UNION {FieldVals(f) : f \in Fields}

\* The keyword arguments of one call: a value for each field it names.
KwOn(D) == {kw \in [D -> AllVals] : \A f \in D : kw[f] \in FieldVals(f)}

\* The sets of fields one call names: none, any single field, and the
\* fields callers set together.
NamedSets ==
    {{}} \cup {{f} : f \in Fields}
         \cup {{"x", "y"}, {"height", "top", "bottom"}}

KwArgs == UNION {KwOn(D) : D \in NamedSets}

----------------------------------------------------------------------------
\* Notifications to the scene graph, in the order a call issues them.

InvalidateNotes == <<"update", "prepareGeometryChange", "informViewBoundsChanged">>

BuildNotes == <<"prepareGeometryChange">>

----------------------------------------------------------------------------
\* getDrawValue and drawPath.

ToFloats(a) == [i \in DOMAIN a |-> Fin(a[i])]

\* The magnitude m at point i: an array is indexed, a scalar is broadcast.
At(m, i) == IF m.t = "ndarray" THEN m.a[i] ELSE m.n

\* m/2. for a magnitude m.
Halved(m) ==
    IF m.t = "ndarray" THEN Arr([i \in DOMAIN m.a |-> m.a[i] \div 2]) ELSE Num(m.n \div 2)

\* a - m and a + m, elementwise over the array a.
ArrSub(a, m) == [i \in DOMAIN a |-> a[i] - At(m, i)]

ArrAdd(a, m) == [i \in DOMAIN a |-> a[i] + At(m, i)]

getDrawValue(o, data, horizontal) ==
    LET log == (horizontal /\ o.logMode.xy[1]) \/ (~horizontal /\ o.logMode.xy[2])
    IN  IF log THEN [i \in DOMAIN data |-> Log10(data[i])] ELSE data

\* The indices a pass keeps: those where none of the three arrays is NaN.
Kept(a, b, c) ==
    SelectSeq([i \in DOMAIN a |-> i],
              LAMBDA i : ~(IsNaN(a[i]) \/ (IsNaN(b[i]) \/ IsNaN(c[i]))))

Filter(a, keep) == [k \in 1..Len(keep) |-> a[keep[k]]]

Seg(role, fx, fy, tx, ty) == [role |-> role, from |-> <<fx, fy>>, to |-> <<tx, ty>>]

\* Mutant of BeamOn: the sign test is dropped.
BeamOn_AnyBeam(o) == o.beam # None

\* beam is not None and beam > 0
BeamOn(o) == o.beam # None /\ o.beam.n > 0

\* beam/2.
BeamHalf(o) == o.beam.n \div 2

HasVertical(o) == o.height # None \/ o.top # None \/ o.bottom # None

HasHorizontal(o) == o.width # None \/ o.right # None \/ o.left # None

\* Mutant of VerticalY1: bottom is looked at before height.
VerticalY1_BottomFirst(o) ==
    IF o.bottom # None THEN ArrSub(o.y.a, o.bottom)
    ELSE IF o.height # None THEN ArrSub(o.y.a, Halved(o.height)) ELSE o.y.a

VerticalY1(o) ==
    IF o.height # None THEN ArrSub(o.y.a, Halved(o.height))
    ELSE IF o.bottom = None THEN o.y.a ELSE ArrSub(o.y.a, o.bottom)

VerticalY2(o) ==
    IF o.height # None THEN ArrAdd(o.y.a, Halved(o.height))
    ELSE IF o.top = None THEN o.y.a ELSE ArrAdd(o.y.a, o.top)

\* Lines 97-101: the three arrays of the vertical pass after its filter.
VerticalFilter(rx, ry1, ry2, keep) ==
    [keep |-> keep, rx |-> Filter(rx, keep), ry1 |-> Filter(ry1, keep),
     ry2 |-> Filter(ry2, keep)]

VerticalTransformed(rx, ry1, ry2) == VerticalFilter(rx, ry1, ry2, Kept(rx, ry1, ry2))

\* Lines 93-101.
VerticalKept(o) ==
    VerticalTransformed(getDrawValue(o, ToFloats(o.x.a), TRUE),
                        getDrawValue(o, ToFloats(VerticalY1(o)), FALSE),
                        getDrawValue(o, ToFloats(VerticalY2(o)), FALSE))

\* Lines 103-105.
VerticalBars(v) ==
    [i \in 1..Len(v.rx) |-> Seg("vbar", v.rx[i], v.ry1[i], v.rx[i], v.ry2[i])]

\* Lines 110-113: the caps at y2.
VerticalUpperCaps(o, v, half) ==
    IF o.height # None \/ o.top # None
    THEN [i \in 1..Len(v.rx) |->
            Seg("vcap2", FAdd(v.rx[i], -half), v.ry2[i], FAdd(v.rx[i], half), v.ry2[i])]
    ELSE <<>>

\* Lines 114-117: the caps at y1.
VerticalLowerCaps(o, v, half) ==
    IF o.height # None \/ o.bottom # None
    THEN [i \in 1..Len(v.rx) |->
            Seg("vcap1", FAdd(v.rx[i], -half), v.ry1[i], FAdd(v.rx[i], half), v.ry1[i])]
    ELSE <<>>

\* Lines 103-117: the segments of the vertical pass, v its filtered arrays.
VerticalSegs(o, v) ==
    IF BeamOn(o)
    THEN VerticalBars(v) \o VerticalUpperCaps(o, v, BeamHalf(o))
                         \o VerticalLowerCaps(o, v, BeamHalf(o))
    ELSE VerticalBars(v)

HorizontalX1(o) ==
    IF o.width # None THEN ArrSub(o.x.a, Halved(o.width))
    ELSE IF o.left = None THEN o.x.a ELSE ArrSub(o.x.a, o.left)

HorizontalX2(o) ==
    IF o.width # None THEN ArrAdd(o.x.a, Halved(o.width))
    ELSE IF o.right = None THEN o.x.a ELSE ArrAdd(o.x.a, o.right)

\* Lines 139-143: the three arrays of the horizontal pass after its filter.
HorizontalFilter(rx1, rx2, ry, keep) ==
    [keep |-> keep, rx1 |-> Filter(rx1, keep), rx2 |-> Filter(rx2, keep),
     ry |-> Filter(ry, keep)]

HorizontalTransformed(rx1, rx2, ry) == HorizontalFilter(rx1, rx2, ry, Kept(rx1, rx2, ry))

\* Lines 135-143.
HorizontalKept(o) ==
    HorizontalTransformed(getDrawValue(o, ToFloats(HorizontalX1(o)), TRUE),
                          getDrawValue(o, ToFloats(HorizontalX2(o)), TRUE),
                          getDrawValue(o, ToFloats(o.y.a), FALSE))

\* The bound of the loops of the horizontal pass, range(len(rx)): rx is the
\* local of the vertical pass (v its filtered arrays), not an array of this pass.
HorizontalLoopBound(v, h) == Len(v.rx)

\* Lines 145-147.
HorizontalBars(h, n) ==
    [i \in 1..n |-> Seg("hbar", h.rx1[i], h.ry[i], h.rx2[i], h.ry[i])]

\* Lines 152-155: the caps at x2.
HorizontalRightCaps(o, h, n, half) ==
    IF o.width # None \/ o.right # None
    THEN [i \in 1..n |->
            Seg("hcap2", h.rx2[i], FAdd(h.ry[i], -half), h.rx2[i], FAdd(h.ry[i], half))]
    ELSE <<>>

\* Lines 156-159: the caps at x1.
HorizontalLeftCaps(o, h, n, half) ==
    IF o.width # None \/ o.left # None
    THEN [i \in 1..n |->
            Seg("hcap1", h.rx1[i], FAdd(h.ry[i], -half), h.rx1[i], FAdd(h.ry[i], half))]
    ELSE <<>>

\* Lines 145-159 with the loop bound n: indexing a filtered array past its
\* end raises IndexError.
HorizontalLoops(o, h, n) ==
    IF n > Len(h.rx1) THEN [err |-> "IndexError", segs |-> <<>>]
    ELSE IF BeamOn(o)
    THEN [err |-> "ok",
          segs |-> HorizontalBars(h, n) \o HorizontalRightCaps(o, h, n, BeamHalf(o))
                                        \o HorizontalLeftCaps(o, h, n, BeamHalf(o))]
    ELSE [err |-> "ok", segs |-> HorizontalBars(h, n)]

\* Lines 119-159.  ran tells whether the vertical pass ran and bound rx; when
\* it did not, len(rx) at line 145 raises UnboundLocalError, a NameError.
HorizontalPass(o, ran, v, h) ==
    IF ~ran THEN [err |-> "NameError", segs |-> <<>>]
    ELSE HorizontalLoops(o, h, HorizontalLoopBound(v, h))

NoArrays == [keep |-> <<>>, rx |-> <<>>, ry1 |-> <<>>, ry2 |-> <<>>]

\* Lines 75-161, x and y present; v is the outcome of the vertical pass.
DrawBoth(o, v, h) ==
    IF h.err # "ok" THEN [end |-> "raised", err |-> h.err, segs |-> <<>>]
    ELSE IF HasVertical(o)
    THEN [end |-> "built", err |-> "ok", segs |-> VerticalSegs(o, v) \o h.segs]
    ELSE [end |-> "built", err |-> "ok", segs |-> h.segs]

DrawAfterVertical(o, v) ==
    DrawBoth(o, v, IF HasHorizontal(o)
                   THEN HorizontalPass(o, HasVertical(o), v, HorizontalKept(o))
                   ELSE [err |-> "ok", segs |-> <<>>])

\* drawPath: "early" is the return of line 73, which assigns nothing;
\* "raised" leaves self.path as it was; "built" reaches line 161.
drawPath(o) ==
    IF o.x = None \/ o.y = None THEN [end |-> "early", err |-> "ok", segs |-> <<>>]
    ELSE DrawAfterVertical(o, IF HasVertical(o) THEN VerticalKept(o) ELSE NoArrays)

----------------------------------------------------------------------------
\* The cached path: NoPath is self.path = None, Built(p) a QPainterPath.

NoPath == <<>>

Built(segs) == <<segs>>

\* The item after drawPath has run with cached path p; d is its outcome.
AfterDraw(d, p) ==
    CASE d.end = "early"  -> [path |-> p, err |-> "ok", notes |-> <<>>]
      [] d.end = "raised" -> [path |-> p, err |-> d.err, notes |-> <<>>]
      [] d.end = "built"  -> [path |-> Built(d.segs), err |-> "ok", notes |-> BuildNotes]

\* "if self.path is None: self.drawPath()" of paint and boundingRect.
EnsurePath(o, p) ==
    IF p = NoPath THEN AfterDraw(drawPath(o), p)
    ELSE [path |-> p, err |-> "ok", notes |-> <<>>]

----------------------------------------------------------------------------
\* The operations.

DefaultOpts ==
    [f \in Fields |-> IF f = "logMode" THEN PyList(FALSE, FALSE) ELSE None]

\* Mutant of Update: the call replaces the option set instead of merging.
Update_Replace(o, kw) == [f \in Fields |-> IF f \in DOMAIN kw THEN kw[f] ELSE DefaultOpts[f]]

\* dict.update
Update(o, kw) == [f \in Fields |-> IF f \in DOMAIN kw THEN kw[f] ELSE o[f]]

\* __init__: the defaults, then setData(**opts).
Init ==
    /\ \E kw \in KwArgs : opts = Update(DefaultOpts, kw)
    /\ path = NoPath
    /\ err = "ok"
    /\ notes = InvalidateNotes

setData(kw) ==
    /\ opts' = Update(opts, kw)
    /\ path' = NoPath
    /\ err' = "ok"
    /\ notes' = InvalidateNotes

\* Python's == between the stored value and the list [xMode, yMode].
LogModeEquals(stored, xMode, yMode) == stored.t = "list" /\ stored.xy = <<xMode, yMode>>

\* Mutant of setLogMode: the cached path is not invalidated.
setLogMode_KeepsPath(xMode, yMode) ==
    IF LogModeEquals(opts.logMode, xMode, yMode)
    THEN /\ err' = "ok"
         /\ notes' = <<>>
         /\ UNCHANGED <<opts, path>>
    ELSE /\ opts' = [opts EXCEPT !.logMode = PyList(xMode, yMode)]
         /\ err' = "ok"
         /\ notes' = InvalidateNotes
         /\ UNCHANGED path

setLogMode(xMode, yMode) ==
    IF LogModeEquals(opts.logMode, xMode, yMode)
    THEN /\ err' = "ok"
         /\ notes' = <<>>
         /\ UNCHANGED <<opts, path>>
    ELSE /\ opts' = [opts EXCEPT !.logMode = PyList(xMode, yMode)]
         /\ path' = NoPath
         /\ err' = "ok"
         /\ notes' = InvalidateNotes

\* The use of self.path after the "if": with the path still None the call
\* raises exc (None is no QPainterPath and has no boundingRect).
UsePath(a, exc) ==
    [path |-> a.path, notes |-> a.notes,
     err |-> IF a.err # "ok" THEN a.err ELSE IF a.path = NoPath THEN exc ELSE "ok"]

Return(r) == path' = r.path /\ notes' = r.notes /\ err' = r.err

paint ==
    /\ Return(UsePath(EnsurePath(opts, path), "TypeError"))
    /\ UNCHANGED opts

boundingRect ==
    /\ Return(UsePath(EnsurePath(opts, path), "AttributeError"))
    /\ UNCHANGED opts

Next ==
    \/ \E xMode \in BOOLEAN, yMode \in BOOLEAN : setLogMode(xMode, yMode)
    \/ \E kw \in KwArgs : setData(kw)
    \/ boundingRect
    \/ paint

Spec == Init /\ [][Next]_vars

----------------------------------------------------------------------------
\* Helpers of the properties.

XYPresent(o) == o.x # None /\ o.y # None

\* Neither NaN nor an infinity.
IsFinite(f) == f.c = "fin"

\* beam present and beam > 0
BeamPositive(o) == o.beam # None /\ o.beam.n > 0

\* The segments of a built path that one loop of drawPath emitted.
RoleSegs(p, role) == SelectSeq(p[1], LAMBDA s : s.role = role)

CapRoles == {"vcap1", "vcap2", "hcap1", "hcap2"}

IsRead == paint \/ boundingRect

\* One horizontal bar per index the horizontal pass's own filter keeps.
OwnHorizontalBars(h) ==
    [k \in 1..Len(h.keep) |-> Seg("hbar", h.rx1[k], h.ry[k], h.rx2[k], h.ry[k])]

\* Vertical bars from y - height/2 to y + height/2, whatever top and bottom are.
HeightArrays(o) ==
    VerticalTransformed(getDrawValue(o, ToFloats(o.x.a), TRUE),
                        getDrawValue(o, ToFloats(ArrSub(o.y.a, Halved(o.height))), FALSE),
                        getDrawValue(o, ToFloats(ArrAdd(o.y.a, Halved(o.height))), FALSE))

HeightBars(v) ==
    [k \in 1..Len(v.keep) |-> Seg("vbar", v.rx[k], v.ry1[k], v.rx[k], v.ry2[k])]

\* The cap of half-width beam/2 around rx at height ry.
CapAt(role, rx, ry, half) == Seg(role, FAdd(rx, -half), ry, FAdd(rx, half), ry)

----------------------------------------------------------------------------
\* C1: whenever x or y is absent, boundingRect builds an empty path and
\* returns without raising.
C1_AbsentDataEmptyPath ==
    [][(boundingRect /\ ~XYPresent(opts)) => (err' = "ok" /\ path' = Built(<<>>))]_vars

\* C2: with x and y present, no vertical field and some horizontal field, the
\* build completes and the path is exactly one horizontal bar per index that
\* survives the horizontal filter, with no vertical segment.
C2_HorizontalOnly ==
    [][(IsRead /\ path = NoPath /\ XYPresent(opts) /\ ~HasVertical(opts)
            /\ HasHorizontal(opts))
        => (/\ err' = "ok"
            /\ path' # NoPath
            /\ RoleSegs(path', "hbar") = OwnHorizontalBars(HorizontalKept(opts))
            /\ \A i \in 1..Len(path'[1]) :
                  path'[1][i].role \notin {"vbar", "vcap1", "vcap2"})]_vars

\* C3: with both vertical and horizontal fields set, the build does not fail
\* and the horizontal bars are those of the indices the horizontal filter
\* keeps, whatever the vertical filter kept.
C3_IndependentFilters ==
    [][(IsRead /\ path = NoPath /\ XYPresent(opts) /\ HasVertical(opts)
            /\ HasHorizontal(opts))
        => (/\ err' = "ok"
            /\ path' # NoPath
            /\ RoleSegs(path', "hbar") = OwnHorizontalBars(HorizontalKept(opts)))]_vars

\* C4: no segment of a built path has a NaN or infinite coordinate (every
\* value <= 0 on a log axis became NaN and was filtered).
C4_FiniteCoordinates ==
    path # NoPath =>
        \A i \in 1..Len(path[1]) :
            /\ IsFinite(path[1][i].from[1]) /\ IsFinite(path[1][i].from[2])
            /\ IsFinite(path[1][i].to[1]) /\ IsFinite(path[1][i].to[2])

\* C5: in a built path of an option set with height present, the vertical
\* bars run from y - height/2 to y + height/2 whatever top and bottom are,
\* and with beam > 0 every bar has its upper and its lower cap.
C5_HeightOverrides ==
    (path # NoPath /\ opts.height # None) =>
        /\ RoleSegs(path, "vbar") = HeightBars(HeightArrays(opts))
        /\ BeamPositive(opts) =>
              /\ Len(RoleSegs(path, "vcap2")) = Len(RoleSegs(path, "vbar"))
              /\ Len(RoleSegs(path, "vcap1")) = Len(RoleSegs(path, "vbar"))

C5_Witness ==
    /\ path # NoPath
    /\ opts.height # None /\ opts.top # None /\ opts.bottom # None
    /\ BeamPositive(opts)
    /\ Len(RoleSegs(path, "vbar")) = NumPoints

\* C6: setLogMode(a, b) while the active pair is (a, b) changes no option,
\* leaves the cached path as it is and issues no notification.
C6_SameModeNoOp ==
    [][\A a \in BOOLEAN, b \in BOOLEAN :
          (setLogMode(a, b) /\ opts.logMode.xy = <<a, b>>)
             => (opts' = opts /\ path' = path /\ notes' = <<>>)]_vars

\* C7: setData gives every named field the supplied value (None included),
\* keeps every other field, and leaves the cached path stale.
C7_PartialMerge ==
    [][\A kw \in KwArgs :
          setData(kw) =>
             /\ \A f \in DOMAIN kw : opts'[f] = kw[f]
             /\ \A f \in Fields \ DOMAIN kw : opts'[f] = opts[f]
             /\ path' = NoPath]_vars

\* A stale state that only calls keeping the fields of earlier calls reach,
\* with beam set to 0 and top absent.
C7_Witness ==
    /\ path = NoPath /\ notes = InvalidateNotes
    /\ XYPresent(opts) /\ opts.height # None /\ opts.beam = Num(0)
    /\ opts.top = None

\* C8: a built path has cap segments only with beam > 0; then the vertical
\* pass has, per index it keeps, an upper cap at y2 iff height or top is
\* present and a lower cap at y1 iff height or bottom is present, each from
\* rx - beam/2 to rx + beam/2.
C8_BeamCaps ==
    path # NoPath =>
        /\ ~BeamPositive(opts) => \A i \in 1..Len(path[1]) : path[1][i].role \notin CapRoles
        /\ (BeamPositive(opts) /\ HasVertical(opts)) =>
              /\ RoleSegs(path, "vcap2") =
                    IF opts.height # None \/ opts.top # None
                    THEN [k \in 1..Len(VerticalKept(opts).keep) |->
                            CapAt("vcap2", VerticalKept(opts).rx[k],
                                  VerticalKept(opts).ry2[k], opts.beam.n \div 2)]
                    ELSE <<>>
              /\ RoleSegs(path, "vcap1") =
                    IF opts.height # None \/ opts.bottom # None
                    THEN [k \in 1..Len(VerticalKept(opts).keep) |->
                            CapAt("vcap1", VerticalKept(opts).rx[k],
                                  VerticalKept(opts).ry1[k], opts.beam.n \div 2)]
                    ELSE <<>>

\* top and bottom with beam 0.5, log off: one bar and two caps per point.
C8_Witness ==
    /\ path # NoPath
    /\ opts.top # None /\ opts.bottom # None /\ opts.height = None
    /\ ~HasHorizontal(opts)
    /\ opts.beam = Num(500)
    /\ opts.logMode.xy = <<FALSE, FALSE>>
    /\ Len(RoleSegs(path, "vbar")) = NumPoints
    /\ Len(path[1]) = 3 * NumPoints

\* C9: a built cached path is the path drawPath builds from the current
\* option set.
C9_CacheCoherent ==
    path # NoPath =>
        /\ drawPath(opts).end = "built"
        /\ path = Built(drawPath(opts).segs)

\* A non-empty path built while both axes are in log mode.
C9_Witness ==
    /\ path # NoPath
    /\ opts.logMode = PyList(TRUE, TRUE)
    /\ Len(path[1]) > 0

\* C10: setData and an effective setLogMode leave the path stale; every paint
\* or boundingRect leaves it built, and an already built path is reused.
C10_TwoStateCache ==
    [][/\ (\E kw \in KwArgs : setData(kw)) => path' = NoPath
       /\ (\E a \in BOOLEAN, b \in BOOLEAN :
              setLogMode(a, b) /\ ~LogModeEquals(opts.logMode, a, b)) => path' = NoPath
       /\ IsRead => (path' # NoPath /\ (path # NoPath => path' = path))]_vars

====
